---- MODULE Spec2Model ----
(***************************************************************************)
(* State-machine model of the BTC price backend (src/db.js, the server     *)
(* that starts at line 176): the in-process live-price cache behind        *)
(* GET /btc-data, the SQLite table btc_price_cache behind                  *)
(* GET /btc-price-history/:date, and the periodic pruning sweep.           *)
(*                                                                         *)
(* JavaScript strings are sequences of one-character strings, JavaScript   *)
(* values are tagged records, objects keep their properties in insertion   *)
(* order.  Date.now() is the variable now, in milliseconds since the       *)
(* process started.                                                        *)
(***************************************************************************)
EXTENDS Integers, Sequences, FiniteSets, TLC

\* ------------------------------------------------------------------ bounds
MaxTicks == 2        \* clock advances in one behaviour
MaxLiveReqs == 3     \* GET /btc-data requests in one behaviour
MaxHistReqs == 2     \* GET /btc-price-history requests in one behaviour
MaxFrameTicks == 1   \* clock advances in one behaviour of SpecFrame

\* --------------------------------------------------------------- constants
CACHE_DURATION_MS == 5 * 60 * 1000
oneDayMs == 24 * 60 * 60 * 1000
maxAgeMs == 24 * 60 * 60 * 1000
PruneIntervalMs == 5 * 60 * 60 * 1000

\* ------------------------------------------------------------ JS strings
usd == <<"u", "s", "d">>
aud == <<"a", "u", "d">>
cad == <<"c", "a", "d">>
eur == <<"e", "u", "r">>
gbp == <<"g", "b", "p">>

Lower == <<"a", "b", "c", "d", "e", "g", "p", "r", "s", "u", "x", "y", "z">>
Upper == <<"A", "B", "C", "D", "E", "G", "P", "R", "S", "U", "X", "Y", "Z">>

CharToUpper(c) ==
    IF \E i \in DOMAIN Lower : Lower[i] = c
    THEN Upper[CHOOSE i \in DOMAIN Lower : Lower[i] = c]
    ELSE c

CharToLower(c) ==
    IF \E i \in DOMAIN Upper : Upper[i] = c
    THEN Lower[CHOOSE i \in DOMAIN Upper : Upper[i] = c]
    ELSE c

toUpperCase(s) == [i \in DOMAIN s |-> CharToUpper(s[i])]

toLowerCase(s) == [i \in DOMAIN s |-> CharToLower(s[i])]

RECURSIVE join(_, _)
join(list, sep) ==
    IF list = <<>> THEN <<>>
    ELSE IF Len(list) = 1 THEN list[1]
    ELSE list[1] \o sep \o join(Tail(list), sep)

includes(list, x) == \E i \in DOMAIN list : list[i] = x

\* ------------------------------------------------------------- JS values
Undefined == [t |-> "undefined"]
Null == [t |-> "null"]
Num(n) == [t |-> "number", v |-> n]
Str(s) == [t |-> "string", v |-> s]
Obj(props) == [t |-> "object", props |-> props]
Arr(items) == [t |-> "array", items |-> items]

Truthy(v) ==
    CASE v.t = "undefined" -> FALSE
      [] v.t = "null" -> FALSE
      [] v.t = "number" -> v.v # 0
      [] v.t = "string" -> v.v # <<>>
      [] OTHER -> TRUE

HasKey(o, k) == o.t = "object" /\ \E i \in DOMAIN o.props : o.props[i][1] = k

\* o[k] for a value o that is neither null nor undefined
Get(o, k) ==
    IF HasKey(o, k)
    THEN o.props[CHOOSE i \in DOMAIN o.props : o.props[i][1] = k][2]
    ELSE Undefined

\* o?.k
OptGet(o, k) == IF o.t \in {"undefined", "null"} THEN Undefined ELSE Get(o, k)

\* o[k] = v
Put(o, k, v) ==
    IF HasKey(o, k)
    THEN Obj([i \in DOMAIN o.props |->
                 IF o.props[i][1] = k THEN <<k, v>> ELSE o.props[i]])
    ELSE Obj(Append(o.props, <<k, v>>))

Keys(o) == [i \in DOMAIN o.props |-> o.props[i][1]]

RECURSIVE Serializable(_)
\* the value JSON text can carry: properties whose value is undefined are
\* dropped, everything else is kept in order
Serializable(v) ==
    IF v.t # "object" THEN v
    ELSE LET RECURSIVE Walk(_)
             Walk(ps) ==
                 IF ps = <<>> THEN <<>>
                 ELSE IF ps[1][2].t = "undefined" THEN Walk(Tail(ps))
                 ELSE <<(<<ps[1][1], Serializable(ps[1][2])>>)>> \o Walk(Tail(ps))
         IN Obj(Walk(v.props))

JSONstringify(v) == [json |-> Serializable(v)]

JSONparse(text) == text.json

\* --------------------------------------------------------------- state
VARIABLES
    now,            \* Date.now()
    ticks,          \* clock advances so far
    alive,          \* the Node process is running
    cachedBtcData,  \* let cachedBtcData
    lastFetchTime,  \* let lastFetchTime
    liveReq,        \* the GET /btc-data requests, in order of arrival
    store,          \* rows of table btc_price_cache
    histReq,        \* the GET /btc-price-history requests, in order of arrival
    nextPruneAt,    \* when the setInterval timer is next due
    pruned,         \* deleted.changes of the last sweep, as logged
    sweepThrew      \* a sweep has thrown out of the timer callback

vars == <<now, ticks, alive, cachedBtcData, lastFetchTime, liveReq, store,
          histReq, nextPruneAt, pruned, sweepThrew>>

liveVars == <<cachedBtcData, lastFetchTime, liveReq>>

histVars == <<store, histReq, nextPruneAt, pruned, sweepThrew>>

\* fixed property names and messages are kept whole
K(name) == <<name>>

Msg(text) == Str(<<text>>)

ErrorBody(text) == JSONstringify(Obj(<< <<K("error"), Msg(text)>> >>))

NoBody == JSONstringify(Undefined)

\* ----------------------------------------------------------- the clock
\* time passes in steps that reach both sides of each threshold of the code
LiveDeltas == {1, CACHE_DURATION_MS - 1}

HistDeltas == {1, oneDayMs - 1}

Tick(deltas) ==
    /\ alive
    /\ ticks < MaxTicks
    /\ \E d \in deltas : now' = now + d
    /\ ticks' = ticks + 1
    /\ UNCHANGED <<alive, liveVars, histVars>>

\* ------------------------------------------------ upstream (CoinGecko)
\* what one fetch() and the following response.json() can produce
Rejects == [rejects |-> TRUE, ok |-> FALSE, parses |-> FALSE, data |-> Undefined]

NotOk == [rejects |-> FALSE, ok |-> FALSE, parses |-> FALSE, data |-> Undefined]

BadJson == [rejects |-> FALSE, ok |-> TRUE, parses |-> FALSE, data |-> Undefined]

Json(data) == [rejects |-> FALSE, ok |-> TRUE, parses |-> TRUE, data |-> data]

change24h == <<"_", "2", "4", "h", "_", "c", "h", "a", "n", "g", "e">>

marketCap == <<"_", "m", "a", "r", "k", "e", "t", "_", "c", "a", "p">>

\* {bitcoin: {usd: p, usd_24h_change: .., usd_market_cap: .., ...}} without the
\* properties named in missing
SimplePrice(p, missing) ==
    LET cs == <<usd, aud, gbp, eur, cad>>
        all == [i \in 1..15 |->
                   LET c == cs[((i - 1) \div 3) + 1]
                   IN CASE (i - 1) % 3 = 0 -> <<c, Num(p)>>
                        [] (i - 1) % 3 = 1 -> <<c \o change24h, Num(2)>>
                        [] OTHER -> <<c \o marketCap, Num(p * 10)>>]
    IN Obj(<< <<K("bitcoin"), Obj(SelectSeq(all, LAMBDA kv : kv[1] \notin missing))>> >>)

LiveResponses ==
    { Rejects, NotOk, BadJson,
      Json(Obj(<<>>)),
      Json(SimplePrice(65000, {})),
      Json(SimplePrice(66000, {eur})) }

\* ------------------------------------------------------ GET /btc-data
LiveIds == 1..MaxLiveReqs

\* calls counts the upstream calls of the request, threw tells that its try
\* block ended in the catch block
IdleLive == [pc |-> "idle", start |-> 0, calls |-> 0, threw |-> FALSE,
             status |-> 0, body |-> NoBody]

\* line 233 with the comparison the wrong way round
LiveCacheValid_Inverted(cached, last, t) ==
    Truthy(cached) /\ t - last > CACHE_DURATION_MS

\* line 233 with <= for <
LiveCacheValid_Inclusive(cached, last, t) ==
    Truthy(cached) /\ t - last <= CACHE_DURATION_MS

\* line 233
LiveCacheValid(cached, last, t) ==
    Truthy(cached) /\ t - last < CACHE_DURATION_MS

\* lines 254-262
FormatBtcData(data) ==
    LET currencies == <<usd, aud, gbp, eur, cad>>
        bitcoin == Get(data, K("bitcoin"))
        RECURSIVE Each(_, _)
        Each(i, btcData) ==
            IF i > Len(currencies) THEN btcData
            ELSE LET currency == currencies[i]
                     upper == toUpperCase(currency)
                 IN Each(i + 1, Put(btcData, upper, Obj(<<
                        <<K("price"), Get(bitcoin, currency)>>,
                        <<K("percentChange24h"), Get(bitcoin, currency \o change24h)>>,
                        <<K("marketCap"), Get(bitcoin, currency \o marketCap)>> >>)))
    IN Each(1, Obj(<<>>))

\* lines 243-262 throw: fetch rejects, the status is not ok, the body is not
\* JSON, or data.bitcoin cannot be indexed
LiveThrows(resp) ==
    \/ resp.rejects
    \/ ~resp.ok
    \/ ~resp.parses
    \/ resp.data.t \in {"undefined", "null"}
    \/ Get(resp.data, K("bitcoin")).t \in {"undefined", "null"}

\* lines 243-262 for each thing the upstream can answer: whether the try
\* block throws, and the btcData it builds if it does not
LiveFetches ==
    { [throws |-> LiveThrows(resp),
       btcData |-> IF LiveThrows(resp) THEN Undefined ELSE FormatBtcData(resp.data)] :
      resp \in LiveResponses }

\* lines 269-272 falling back to the stale payload
LiveCatch_ServeStale(cached, last) ==
    IF Truthy(cached)
    THEN [status |-> 200, body |-> JSONstringify(cached), cached |-> cached, last |-> last]
    ELSE [status |-> 500, body |-> ErrorBody("Failed to fetch BTC data"),
          cached |-> cached, last |-> last]

\* lines 269-272: the catch block
LiveCatch(cached, last) ==
    [status |-> 500, body |-> ErrorBody("Failed to fetch BTC data"),
     cached |-> cached, last |-> last]

\* lines 264-268
LiveStore(btcData, t) ==
    [status |-> 200, body |-> JSONstringify(btcData),
     cached |-> btcData, last |-> t]

\* lines 264-268 skipped, the result still returned, when a request that
\* started later has refreshed the cache in the meantime
LiveAfterFetch_KeepNewer(f, t, cached, last) ==
    IF f.throws THEN LiveCatch(cached, last)
    ELSE IF Truthy(cached) /\ t < last
    THEN [status |-> 200, body |-> JSONstringify(f.btcData),
          cached |-> cached, last |-> last]
    ELSE LiveStore(f.btcData, t)

\* lines 239-272, once the upstream call of line 243 has settled as f;
\* t is the const now of line 232
LiveAfterFetch(f, t, cached, last) ==
    IF f.throws THEN LiveCatch(cached, last) ELSE LiveStore(f.btcData, t)

\* lines 231-245: the handler up to its first await
LiveBegin(r) ==
    /\ alive
    /\ liveReq[r].pc = "idle"
    /\ r > 1 => liveReq[r - 1].pc # "idle"
    /\ IF LiveCacheValid(cachedBtcData, lastFetchTime, now)
       THEN liveReq' = [liveReq EXCEPT ![r] =
                [pc |-> "done", start |-> now, calls |-> 0, threw |-> FALSE,
                 status |-> 200, body |-> JSONstringify(cachedBtcData)]]
       ELSE liveReq' = [liveReq EXCEPT ![r] =
                [pc |-> "fetch", start |-> now, calls |-> 1, threw |-> FALSE,
                 status |-> 0, body |-> NoBody]]
    /\ UNCHANGED <<now, ticks, alive, cachedBtcData, lastFetchTime, histVars>>

\* lines 247-272: the upstream call settles and the handler runs to its end
LiveComplete(r) ==
    /\ alive
    /\ liveReq[r].pc = "fetch"
    /\ \E f \in LiveFetches :
          LET out == LiveAfterFetch(f, liveReq[r].start, cachedBtcData, lastFetchTime)
          IN /\ cachedBtcData' = out.cached
             /\ lastFetchTime' = out.last
             /\ liveReq' = [liveReq EXCEPT ![r] =
                    [@ EXCEPT !.pc = "done", !.threw = f.throws,
                              !.status = out.status, !.body = out.body]]
    /\ UNCHANGED <<now, ticks, alive, histVars>>

\* ------------------------------------------- table btc_price_cache
\* line 195 with the day in seconds
getPriceFromCache_Seconds(date, t, table) ==
    LET rows == {row \in table : row.date = date}
    IN IF rows # {} /\ t - (CHOOSE row \in rows : TRUE).timestamp < 24 * 60 * 60
       THEN JSONparse((CHOOSE row \in rows : TRUE).price_data)
       ELSE Null

\* line 196 with <= for <
getPriceFromCache_Inclusive(date, t, table) ==
    LET rows == {row \in table : row.date = date}
    IN IF rows # {} /\ t - (CHOOSE row \in rows : TRUE).timestamp <= oneDayMs
       THEN JSONparse((CHOOSE row \in rows : TRUE).price_data)
       ELSE Null

\* lines 189-201; t is Date.now()
getPriceFromCache(date, t, table) ==
    LET rows == {row \in table : row.date = date}
    IN IF rows # {} /\ t - (CHOOSE row \in rows : TRUE).timestamp < oneDayMs
       THEN JSONparse((CHOOSE row \in rows : TRUE).price_data)
       ELSE Null

\* line 204 with the maximum age in seconds
pruneOldCacheEntries_Seconds(t, table) ==
    LET cutoff == t - 24 * 60 * 60
        deleted == {row \in table : row.timestamp < cutoff}
    IN [table |-> table \ deleted, changes |-> Cardinality(deleted)]

\* lines 205-207 deleting one old row per run (DELETE ... LIMIT 1)
pruneOldCacheEntries_OneByOne(t, table) ==
    LET cutoff == t - maxAgeMs
        old == {row \in table : row.timestamp < cutoff}
        deleted == IF old = {} THEN {} ELSE {CHOOSE row \in old : TRUE}
    IN [table |-> table \ deleted, changes |-> Cardinality(deleted)]

\* line 206 with <= for <
pruneOldCacheEntries_Inclusive(t, table) ==
    LET cutoff == t - maxAgeMs
        deleted == {row \in table : row.timestamp <= cutoff}
    IN [table |-> table \ deleted, changes |-> Cardinality(deleted)]

\* lines 203-209; t is Date.now()
pruneOldCacheEntries(t, table) ==
    LET cutoff == t - maxAgeMs
        deleted == {row \in table : row.timestamp < cutoff}
    IN [table |-> table \ deleted, changes |-> Cardinality(deleted)]

\* lines 213-217 replacing the payload of an existing row and keeping its
\* timestamp
savePriceToCache_KeepTimestamp(date, priceData, t, table) ==
    {row \in table : row.date # date}
        \cup {[date |-> date, price_data |-> JSONstringify(priceData),
               timestamp |-> IF \E row \in table : row.date = date
                             THEN (CHOOSE row \in table : row.date = date).timestamp
                             ELSE t]}

\* lines 213-217 emptying the table before the insert
savePriceToCache_Truncate(date, priceData, t, table) ==
    {[date |-> date, price_data |-> JSONstringify(priceData), timestamp |-> t]}

\* lines 211-219: INSERT OR REPLACE on the primary key date; t is Date.now()
savePriceToCache(date, priceData, t, table) ==
    {row \in table : row.date # date}
        \cup {[date |-> date, price_data |-> JSONstringify(priceData), timestamp |-> t]}

\* ------------------------------------- GET /btc-price-history/:date
Digits == {"0", "1", "2", "3", "4", "5", "6", "7", "8", "9"}

\* the pattern of line 283 between ^ and $: \d{2}-\d{2}-\d{4}
DatePattern == <<"\\d", "\\d", "-", "\\d", "\\d", "-", "\\d", "\\d", "\\d", "\\d">>

\* the characters of s from position i on match the pattern from token p on;
\* atEnd is the $ anchor
RECURSIVE MatchFrom(_, _, _, _)
MatchFrom(s, i, p, atEnd) ==
    IF p > Len(DatePattern) THEN (atEnd => i = Len(s) + 1)
    ELSE /\ i <= Len(s)
         /\ IF DatePattern[p] = "\\d" THEN s[i] \in Digits ELSE s[i] = DatePattern[p]
         /\ MatchFrom(s, i + 1, p + 1, atEnd)

\* line 283 without the $ anchor
DateRegexTest_NoEndAnchor(date) == MatchFrom(date, 1, 1, FALSE)

\* line 283: /^\d{2}-\d{2}-\d{4}$/.test(date)
DateRegexTest(date) == MatchFrom(date, 1, 1, TRUE)

supportedCurrencies == <<usd, aud, cad, eur, gbp>>

\* String.prototype.toString and Array.prototype.toString (the elements
\* joined by commas) for the values a query parameter can have: a string, or
\* an array of strings when the parameter is repeated
toString(v) ==
    IF v.t = "array"
    THEN join([i \in DOMAIN v.items |-> v.items[i].v], <<",">>)
    ELSE v.v

\* line 279 without toLowerCase()
CurrencyParamOf_CaseSensitive(query) ==
    IF query.t \in {"undefined", "null"} THEN Undefined
    ELSE Str(toString(query))

\* line 279: req.query.currency?.toString().toLowerCase()
CurrencyParamOf(query) ==
    IF query.t \in {"undefined", "null"} THEN Undefined
    ELSE Str(toLowerCase(toString(query)))

\* lines 290-294
CurrenciesToReturn(currencyParam) ==
    IF Truthy(currencyParam) /\ includes(supportedCurrencies, currencyParam.v)
    THEN <<currencyParam.v>>
    ELSE supportedCurrencies

\* the key of the first version of the handler (line 147): the date alone
CacheKey_DateOnly(date, currenciesToReturn) == date

\* line 299
CacheKey(date, currenciesToReturn) ==
    date \o <<"-">> \o join(currenciesToReturn, <<",">>)

\* lines 324-329
FilterPrices(allPrices, currenciesToReturn) ==
    LET RECURSIVE Each(_, _)
        Each(i, filteredPrices) ==
            IF i > Len(currenciesToReturn) THEN filteredPrices
            ELSE LET currency == currenciesToReturn[i]
                 IN IF Truthy(Get(allPrices, currency))
                    THEN Each(i + 1, Put(filteredPrices, currency, Get(allPrices, currency)))
                    ELSE Each(i + 1, filteredPrices)
    IN Each(1, Obj(<<>>))

\* line 331 testing a length that an object does not have
NoneFound_Length(filteredPrices) == FALSE

\* line 331
NoneFound(filteredPrices) == Len(Keys(filteredPrices)) = 0

\* lines 306-347, once the upstream call of line 306 has settled as resp:
\* the response, and the result to save when there is one
HistAfterFetch(resp, date, currenciesToReturn) ==
    LET allPrices == OptGet(OptGet(resp.data, K("market_data")), K("current_price"))
        filteredPrices == FilterPrices(allPrices, currenciesToReturn)
        result == Obj(<< <<K("date"), Str(date)>>, <<K("prices"), filteredPrices>> >>)
    IN IF resp.rejects \/ ~resp.ok \/ ~resp.parses
       THEN [threw |-> TRUE, status |-> 500, save |-> FALSE, result |-> Undefined,
             body |-> ErrorBody("Failed to fetch BTC price history")]
       ELSE IF ~Truthy(allPrices)
       THEN [threw |-> FALSE, status |-> 400, save |-> FALSE, result |-> Undefined,
             body |-> ErrorBody("Price data not available for this date")]
       ELSE IF NoneFound(filteredPrices)
       THEN [threw |-> FALSE, status |-> 400, save |-> FALSE, result |-> Undefined,
             body |-> ErrorBody("No supported currencies found for this date")]
       ELSE [threw |-> FALSE, status |-> 200, save |-> TRUE, result |-> result,
             body |-> JSONstringify(result)]

\* what the requests ask for
DateOk == <<"1", "9", "-", "0", "5", "-", "2", "0", "2", "5">>

DateLong == <<"1", "9", "-", "0", "5", "-", "2", "0", "2", "5", "5">>

\* the path parameter and the currency query of a request
HistInputs ==
    { <<DateOk, Undefined>>,
      <<DateOk, Str(<<"E", "U", "R">>)>>,
      <<DateLong, Undefined>> }

\* {market_data: {current_price: prices}}
History(prices) ==
    Obj(<< <<K("market_data"), Obj(<< <<K("current_price"), Obj(prices)>> >>)>> >>)

HistResponses ==
    { Rejects, NotOk, BadJson,
      Json(Obj(<<>>)),
      Json(History(<< <<usd, Num(65000)>>, <<eur, Num(60000)>> >>)),
      Json(History(<< <<usd, Num(0)>>, <<gbp, Num(50000)>> >>)) }

HistIds == 1..MaxHistReqs

\* reads, calls: the store lookups and upstream calls of the request; found:
\* the row its lookup met (none, fresh, or stale: 24 hours old or older);
\* upstream: the body the upstream answered; wroteAt: the timestamp of its
\* store write
IdleHist == [pc |-> "idle", date |-> <<>>, currency |-> Undefined, key |-> <<>>,
             reads |-> 0, found |-> "", calls |-> 0, threw |-> FALSE,
             upstream |-> Undefined, wrote |-> FALSE, wroteAt |-> 0,
             status |-> 0, body |-> NoBody]

\* the row of the table under a key, as it is now
RowState(key) ==
    IF \A row \in store : row.date # key THEN "none"
    ELSE IF \E row \in store : row.date = key /\ now - row.timestamp < oneDayMs
    THEN "fresh"
    ELSE "stale"

\* lines 276-308: the handler up to its first await, for a request drawn
\* from inputs (the table is taken to answer; a failing statement is
\* modelled for the sweep, in PruneThrows)
HistBeginFrom(r, inputs) ==
    /\ alive
    /\ histReq[r].pc = "idle"
    /\ r > 1 => histReq[r - 1].pc # "idle"
    /\ \E input \in inputs :
          LET date == input[1]
              query == input[2]
              currenciesToReturn == CurrenciesToReturn(CurrencyParamOf(query))
              cacheKey == CacheKey(date, currenciesToReturn)
              cached == getPriceFromCache(cacheKey, now, store)
              req == [IdleHist EXCEPT !.date = date, !.currency = query]
              looked == [req EXCEPT !.key = cacheKey, !.reads = 1,
                                    !.found = RowState(cacheKey)]
          IN histReq' = [histReq EXCEPT ![r] =
                 IF ~DateRegexTest(date)
                 THEN [req EXCEPT !.pc = "done", !.status = 400,
                           !.body = ErrorBody("Invalid date format. Use dd-mm-yyyy.")]
                 ELSE IF Truthy(cached)
                 THEN [looked EXCEPT !.pc = "done", !.status = 200,
                                     !.body = JSONstringify(cached)]
                 ELSE [looked EXCEPT !.pc = "fetch", !.calls = 1]]
    /\ UNCHANGED <<now, ticks, alive, liveVars, store, nextPruneAt, pruned, sweepThrew>>

HistBegin(r) == HistBeginFrom(r, HistInputs)

\* lines 310-347: the upstream call settles and the handler runs to its end
HistComplete(r) ==
    /\ alive
    /\ histReq[r].pc = "fetch"
    /\ \E resp \in HistResponses :
          LET req == histReq[r]
              out == HistAfterFetch(resp, req.date,
                                    CurrenciesToReturn(CurrencyParamOf(req.currency)))
          IN /\ store' = IF out.save
                         THEN savePriceToCache(req.key, out.result, now, store)
                         ELSE store
             /\ histReq' = [histReq EXCEPT ![r] =
                    [req EXCEPT !.pc = "done", !.threw = out.threw,
                                !.upstream = resp.data,
                                !.wrote = out.save,
                                !.wroteAt = IF out.save THEN now ELSE 0,
                                !.status = out.status, !.body = out.body]]
    /\ UNCHANGED <<now, ticks, alive, liveVars, nextPruneAt, pruned, sweepThrew>>

\* ----------------------------------------------- the pruning sweep
\* line 228: the timer callback runs the sweep; setInterval re-arms the timer
Prune ==
    /\ alive
    /\ now >= nextPruneAt
    /\ LET out == pruneOldCacheEntries(now, store)
       IN /\ store' = out.table
          /\ pruned' = out.changes
    /\ nextPruneAt' = now + PruneIntervalMs
    /\ UNCHANGED <<now, ticks, alive, liveVars, histReq, sweepThrew>>

\* lines 205-207 throw (better-sqlite3 reports a failed statement by throwing):
\* nothing between line 207 and the timer callback of line 228 catches, and no
\* uncaughtException handler is installed, so Node ends the process
PruneThrows ==
    /\ alive
    /\ now >= nextPruneAt
    /\ sweepThrew' = TRUE
    /\ alive' = FALSE
    /\ UNCHANGED <<now, ticks, liveVars, store, histReq, nextPruneAt, pruned>>

Init ==
    /\ now = 0
    /\ ticks = 0
    /\ alive = TRUE
    /\ cachedBtcData = Null
    /\ lastFetchTime = 0
    /\ liveReq = [r \in LiveIds |-> IdleLive]
    /\ store = {}
    /\ histReq = [r \in HistIds |-> IdleHist]
    /\ nextPruneAt = PruneIntervalMs
    /\ pruned = 0
    /\ sweepThrew = FALSE

NextLive ==
    \/ Tick(LiveDeltas)
    \/ \E r \in LiveIds : LiveBegin(r)
    \/ \E r \in LiveIds : LiveComplete(r)

SpecLive == Init /\ [][NextLive]_vars

\* the historical store while its sweeps succeed
NextHist ==
    \/ Tick(HistDeltas)
    \/ \E r \in HistIds : HistBegin(r)
    \/ \E r \in HistIds : HistComplete(r)
    \/ Prune

SpecHist == Init /\ [][NextHist]_vars

\* the historical store with sweeps that can fail
NextSweep == NextHist \/ PruneThrows

SpecSweep == Init /\ [][NextSweep]_vars

Next == NextLive \/ NextSweep

Spec == Init /\ [][Next]_vars

\* one request to each handler, with an upstream that may never answer: the
\* clock and the timer of line 228 always run in the end, but nothing makes
\* the upstream settle the call of line 243 or line 306, which are made
\* without a timeout or an abort signal
NextPending ==
    \/ Tick(HistDeltas)
    \/ LiveBegin(1)
    \/ LiveComplete(1)
    \/ HistBegin(1)
    \/ HistComplete(1)
    \/ Prune

SpecPending ==
    Init /\ [][NextPending]_vars /\ WF_vars(Tick(HistDeltas)) /\ WF_vars(Prune)

\* the historical handler next to one GET /btc-data request, the clock
\* advancing by whole days
NextFrame ==
    \/ ticks < MaxFrameTicks /\ Tick({oneDayMs})
    \/ \E r \in HistIds : HistBegin(r)
    \/ \E r \in HistIds : HistComplete(r)
    \/ LiveBegin(1)
    \/ LiveComplete(1)

SpecFrame == Init /\ [][NextFrame]_vars

\* the values req.query.currency can have: absent, one value, empty,
\* recognized or not, or an array when the parameter is given several times
\* (or once in bracket notation)
ParamQueries ==
    { Undefined,
      Str(<<"U", "S", "D">>), Str(<<"x", "y", "z">>), Str(<<>>),
      Str(<<"u", "s", "d", ",", "e", "u", "r">>),
      Arr(<<Str(usd), Str(eur)>>), Arr(<<Str(<<"G", "B", "P">>)>>) }

ParamInputs ==
    {<<DateOk, query>> : query \in ParamQueries}
        \cup {<<DateLong, Str(usd)>>}

\* the historical handler on every kind of currency parameter
NextParam ==
    \/ \E r \in HistIds : HistBeginFrom(r, ParamInputs)
    \/ \E r \in HistIds : HistComplete(r)

SpecParam == Init /\ [][NextParam]_vars

\* ================================================= claims on GET /btc-data
LiveStarted(r) == liveReq[r].pc # "idle"

LiveDone(r) == liveReq[r].pc = "done"

LiveBegins(r) == liveReq[r].pc = "idle" /\ liveReq'[r].pc # "idle"

LiveSettles(r) == liveReq[r].pc = "fetch" /\ liveReq'[r].pc = "done"

\* C2, second half: a call that finds a cached payload with
\* now - lastFetchTime < 5 minutes returns it, makes no upstream call and
\* leaves cachedBtcData and lastFetchTime alone.
C2_HitStep ==
    \A r \in LiveIds :
        (LiveBegins(r) /\ cachedBtcData # Null
                       /\ now - lastFetchTime < CACHE_DURATION_MS)
        => /\ liveReq'[r].pc = "done"
           /\ liveReq'[r].status = 200
           /\ liveReq'[r].body = JSONstringify(cachedBtcData)
           /\ liveReq'[r].calls = 0
           /\ UNCHANGED <<cachedBtcData, lastFetchTime>>

\* C2, first half as stated: any two calls that start within 5 minutes of
\* each other yield identical output and make at most one upstream call
\* between them.
C2_AnyTwoWithinTTL ==
    \A i, j \in LiveIds :
        (i < j /\ LiveDone(i) /\ LiveDone(j)
               /\ liveReq[j].start - liveReq[i].start < CACHE_DURATION_MS)
        => /\ liveReq[j].body = liveReq[i].body
           /\ liveReq[i].calls + liveReq[j].calls <= 1

\* C2 as stated: the live-price cache within the TTL.
C2_Original == []C2_AnyTwoWithinTTL /\ [][C2_HitStep]_vars

\* C2, first half amended: when the first call has completed a successful
\* refresh, and the second starts less than 5 minutes after the first one's
\* start while that refresh is still what the cache holds, the second
\* returns the first one's output and the two make exactly one upstream call.
C2_SuccessionStep ==
    \A i, j \in LiveIds :
        (/\ LiveBegins(j)
         /\ LiveDone(i) /\ liveReq[i].status = 200 /\ liveReq[i].calls = 1
         /\ cachedBtcData # Null
         /\ JSONstringify(cachedBtcData) = liveReq[i].body
         /\ lastFetchTime = liveReq[i].start
         /\ now - liveReq[i].start < CACHE_DURATION_MS)
        => /\ liveReq'[j].pc = "done"
           /\ liveReq'[j].body = liveReq[i].body
           /\ liveReq[i].calls + liveReq'[j].calls = 1

\* C2 amended: the live-price cache within the TTL, for a call that follows
\* a completed refresh, and for every call that finds a fresh payload.
C2_WithinTTL == [][C2_SuccessionStep /\ C2_HitStep]_vars

\* C2 witness: a refresh, and a later call within 5 minutes served from it.
C2_Witness ==
    \E i, j \in LiveIds :
        /\ i < j /\ LiveDone(i) /\ LiveDone(j)
        /\ liveReq[i].status = 200 /\ liveReq[i].calls = 1
        /\ liveReq[j].status = 200 /\ liveReq[j].calls = 0
        /\ liveReq[j].start > liveReq[i].start
        /\ liveReq[j].start - liveReq[i].start < CACHE_DURATION_MS
        /\ liveReq[j].body = liveReq[i].body
        /\ lastFetchTime = liveReq[i].start

\* C3, per call: a call that starts with no cached payload, or with
\* now - lastFetchTime >= 5 minutes, is not answered from the cache and makes
\* one upstream call.
C3_MissStep ==
    \A r \in LiveIds :
        (LiveBegins(r) /\ (cachedBtcData = Null
                           \/ now - lastFetchTime >= CACHE_DURATION_MS))
        => /\ liveReq'[r].pc = "fetch"
           /\ liveReq'[r].calls = 1
           /\ liveReq'[r].status = 0

\* C3, per call: when that upstream call settles the request has made exactly
\* one call, and on success the payload it returns is the new cached payload,
\* with lastFetchTime the start time of the request.
C3_RefreshStep ==
    \A r \in LiveIds :
        LiveSettles(r)
        => /\ liveReq'[r].calls = 1
           /\ liveReq'[r].status = 200
              => /\ cachedBtcData' # Null
                 /\ liveReq'[r].body = JSONstringify(cachedBtcData')
                 /\ lastFetchTime' = liveReq[r].start

\* C3, the consequence as stated: two calls more than 5 minutes apart make
\* two upstream calls.
C3_AnyTwoApart ==
    \A i, j \in LiveIds :
        (i < j /\ LiveStarted(i) /\ LiveStarted(j)
               /\ liveReq[j].start - liveReq[i].start > CACHE_DURATION_MS)
        => liveReq[i].calls + liveReq[j].calls = 2

\* C3 as stated: the live-price cache after the TTL.
C3_Original == []C3_AnyTwoApart /\ [][C3_MissStep /\ C3_RefreshStep]_vars

\* C3, the consequence amended: two calls more than 5 minutes apart make two
\* upstream calls when the first made one (it was not served from the cache)
\* and no call that started after the first has refreshed the cache by the
\* time the second starts.
C3_ApartStep ==
    \A i, j \in LiveIds :
        (/\ LiveBegins(j)
         /\ LiveStarted(i) /\ liveReq[i].calls = 1
         /\ now - liveReq[i].start > CACHE_DURATION_MS
         /\ (cachedBtcData = Null \/ lastFetchTime <= liveReq[i].start))
        => liveReq[i].calls + liveReq'[j].calls = 2

\* C3 amended: the live-price cache after the TTL.
C3_AfterTTL == [][C3_MissStep /\ C3_RefreshStep /\ C3_ApartStep]_vars

\* C3 witness: a refresh, and a call starting exactly 5 minutes after it that
\* refreshed again and stamped the cache with its own start time.
C3_Witness ==
    \E i, j \in LiveIds :
        /\ i < j /\ LiveDone(i) /\ LiveDone(j)
        /\ liveReq[i].status = 200 /\ liveReq[i].calls = 1
        /\ liveReq[j].status = 200 /\ liveReq[j].calls = 1
        /\ liveReq[j].start - liveReq[i].start = CACHE_DURATION_MS
        /\ lastFetchTime = liveReq[j].start
        /\ liveReq[j].body = JSONstringify(cachedBtcData)

\* C5: a refresh whose upstream call fails (rejected, non-success status,
\* body that is not JSON or has no bitcoin object) answers 500 with the error
\* body, never the stale payload, and leaves cachedBtcData and lastFetchTime
\* as they were.
C5_FailStep ==
    \A r \in LiveIds :
        (LiveSettles(r) /\ liveReq'[r].threw)
        => /\ liveReq'[r].status = 500
           /\ liveReq'[r].body = ErrorBody("Failed to fetch BTC data")
           /\ UNCHANGED <<cachedBtcData, lastFetchTime>>

\* C5: freshness over availability: every step that settles a failed refresh
\* satisfies C5_FailStep.
C5_FreshnessOverAvailability == [][C5_FailStep]_vars

\* C5 witness: a failed refresh that started with an expired payload in the
\* cache, which is still there.
C5_Witness ==
    \E i, j \in LiveIds :
        /\ i < j /\ LiveDone(i) /\ LiveDone(j)
        /\ liveReq[i].status = 200 /\ liveReq[i].calls = 1
        /\ liveReq[j].threw /\ liveReq[j].status = 500
        /\ liveReq[j].start - liveReq[i].start >= CACHE_DURATION_MS
        /\ cachedBtcData # Null
        /\ JSONstringify(cachedBtcData) = liveReq[i].body
        /\ lastFetchTime = liveReq[i].start

\* ======================================= claims on GET /btc-price-history
HistStarted(r) == histReq[r].pc # "idle"

HistDone(r) == histReq[r].pc = "done"

HistBegins(r) == histReq[r].pc = "idle" /\ histReq'[r].pc # "idle"

HistSettles(r) == histReq[r].pc = "fetch" /\ histReq'[r].pc = "done"

\* a date string of the form dd-mm-yyyy
IsDdMmYyyy(s) ==
    /\ Len(s) = 10
    /\ \A i \in 1..10 : IF i \in {3, 6} THEN s[i] = "-" ELSE s[i] \in Digits

\* the effective currency list of a currency query
EffectiveCurrencies(query) ==
    IF query.t = "string"
       /\ toLowerCase(query.v) \in {usd, aud, cad, eur, gbp}
    THEN <<toLowerCase(query.v)>>
    ELSE <<usd, aud, cad, eur, gbp>>

\* the composite key of a request
CompositeKey(date, query) ==
    date \o <<"-">> \o join(EffectiveCurrencies(query), <<",">>)

InvalidDateBody == ErrorBody("Invalid date format. Use dd-mm-yyyy.")

NoPriceDataBody == ErrorBody("Price data not available for this date")

NoCurrenciesBody == ErrorBody("No supported currencies found for this date")

\* the entry that request i wrote is still the one in the store
HoldsWriteOf(i) ==
    \E row \in store :
        /\ row.date = histReq[i].key
        /\ row.timestamp = histReq[i].wroteAt
        /\ row.price_data = histReq[i].body

\* C1: a historical lookup that wrote its entry, followed within 24 hours of
\* that write by a second call with the same date and currency (no other
\* request having rewritten the entry in between): the second call makes no
\* upstream call, so the two make exactly one, and answers with the body of
\* the first.
C1_SecondCallStep ==
    \A i, j \in HistIds :
        (/\ HistBegins(j)
         /\ HistDone(i) /\ histReq[i].wrote /\ histReq[i].status = 200
         /\ histReq'[j].date = histReq[i].date
         /\ histReq'[j].currency = histReq[i].currency
         /\ HoldsWriteOf(i)
         /\ now - histReq[i].wroteAt < oneDayMs)
        => /\ histReq'[j].pc = "done"
           /\ histReq'[j].status = 200
           /\ histReq'[j].body = histReq[i].body
           /\ histReq[i].calls + histReq'[j].calls = 1

\* C1: historical lookup is idempotent within the retention window: every
\* step that starts such a second call satisfies C1_SecondCallStep.
C1_Idempotent == [][C1_SecondCallStep]_vars

\* C1 witness: a call that fetched and wrote, a later call with the same
\* date and currency served from the entry, after time has passed.
C1_Witness ==
    \E i, j \in HistIds :
        /\ i < j /\ HistDone(i) /\ HistDone(j)
        /\ histReq[i].wrote /\ histReq[i].calls = 1
        /\ histReq[j].date = histReq[i].date
        /\ histReq[j].currency = histReq[i].currency
        /\ histReq[j].found = "fresh" /\ histReq[j].calls = 0
        /\ histReq[j].status = 200
        /\ histReq[j].body = histReq[i].body
        /\ now > histReq[i].wroteAt

\* C4: a request whose lookup meets an entry written 24 hours ago or
\* earlier, or no entry (never written, or deleted by the sweep), is a miss:
\* it is not answered from the store and makes exactly one upstream call.
C4_ExpiredIsMiss ==
    \A r \in HistIds :
        (HistStarted(r) /\ histReq[r].found \in {"none", "stale"})
        => /\ histReq[r].calls = 1
           /\ histReq[r].pc = "done" => (histReq[r].status = 200 => histReq[r].wrote)

\* C4 witness: a request that met an expired entry the sweep had not deleted,
\* and fetched.
C4_Witness ==
    \E r \in HistIds :
        /\ histReq[r].found = "stale"
        /\ histReq[r].calls = 1
        /\ HistDone(r) /\ histReq[r].wrote

\* date strings around the pattern: 19-05-2025 with one character replaced,
\* shortened, lengthened, prefixed; the empty string; bad-date
DateSamples ==
    {[DateOk EXCEPT ![i] = c] : i \in 1..10, c \in {"7", "-", "a"}}
        \cup {DateLong, SubSeq(DateOk, 1, 9), <<"1">> \o DateOk, <<>>,
              <<"b", "a", "d", "-", "d", "a", "t", "e">>}

\* the test of line 283 accepts exactly the strings of the form dd-mm-yyyy
PatternOnSamples == \A s \in DateSamples : DateRegexTest(s) <=> IsDdMmYyyy(s)

\* C6: a request whose date does not match dd-mm-yyyy is answered 400 with
\* the invalid-date error without a store lookup, a store write or an
\* upstream call; a request whose date matches goes on to the store lookup.
C6_ValidationFirst ==
    /\ PatternOnSamples
    /\ \A r \in HistIds :
        HistStarted(r)
        => IF IsDdMmYyyy(histReq[r].date)
           THEN histReq[r].reads = 1
           ELSE /\ histReq[r].pc = "done"
                /\ histReq[r].status = 400
                /\ histReq[r].body = InvalidDateBody
                /\ histReq[r].reads = 0
                /\ histReq[r].calls = 0
                /\ ~histReq[r].wrote

\* C6 witness: a rejected date and an accepted one.
C6_Witness ==
    \E i, j \in HistIds :
        /\ HistDone(i) /\ ~IsDdMmYyyy(histReq[i].date) /\ histReq[i].status = 400
        /\ HistStarted(j) /\ IsDdMmYyyy(histReq[j].date) /\ histReq[j].reads = 1

\* a sweep has just run
SweepRuns == nextPruneAt' # nextPruneAt

\* C7: a sweep at time now deletes exactly the entries with
\* timestamp < now - 24h, leaves every other entry as it was, and logs the
\* number deleted.
C7_SweepStep ==
    SweepRuns
    => /\ store' = {row \in store : ~(row.timestamp < now - oneDayMs)}
       /\ pruned' = Cardinality({row \in store : row.timestamp < now - oneDayMs})

\* C7: pruning sweep exactness: every sweep satisfies C7_SweepStep.
C7_PruneExact == [][C7_SweepStep]_vars

\* C7 witness: a sweep has deleted one entry and left a younger one.
C7_Witness ==
    /\ nextPruneAt = now + PruneIntervalMs
    /\ pruned = 1
    /\ \E row \in store : now - row.timestamp <= oneDayMs
    /\ \E i \in HistIds :
          /\ histReq[i].wrote /\ histReq[i].wroteAt < now - oneDayMs
          /\ \A row \in store : row.date # histReq[i].key

\* C8: a sweep that fails is swallowed: it does not end the process, whose
\* timer would run the next sweep.
C8_SweepFailureSwallowed == sweepThrew => alive

\* C9: the key of a request is date + "-" + the joined effective currencies,
\* so requests for one date with different effective currency lists have
\* different keys.
C9_Keys ==
    /\ \A r \in HistIds :
          (HistStarted(r) /\ IsDdMmYyyy(histReq[r].date))
          => histReq[r].key = CompositeKey(histReq[r].date, histReq[r].currency)
    /\ \A i, j \in HistIds :
          (/\ HistStarted(i) /\ HistStarted(j)
           /\ IsDdMmYyyy(histReq[i].date)
           /\ histReq[i].date = histReq[j].date
           /\ EffectiveCurrencies(histReq[i].currency)
                 # EffectiveCurrencies(histReq[j].currency))
          => histReq[i].key # histReq[j].key

\* C9: an entry a request wrote stays in the store, under that request's key,
\* for as long as the sweep cannot delete it: a write under another key does
\* not replace it.
C9_EntriesKept ==
    \A i \in HistIds :
        (HistDone(i) /\ histReq[i].wrote /\ now - histReq[i].wroteAt <= oneDayMs)
        => \E row \in store :
              /\ row.date = CompositeKey(histReq[i].date, histReq[i].currency)
              /\ row.timestamp >= histReq[i].wroteAt

\* C9: a write adds or replaces the entry under the request's own key with
\* what the request returns, and changes no entry under another key.
C9_WriteStep ==
    \A r \in HistIds :
        (HistSettles(r) /\ histReq'[r].wrote)
        => LET key == CompositeKey(histReq[r].date, histReq[r].currency)
           IN /\ \A row \in store : row.date # key => row \in store'
              /\ \A row \in store' :
                    row.date = key
                    => /\ row.price_data = histReq'[r].body
                       /\ row.timestamp = now
              /\ \E row \in store' : row.date = key

\* C9: a cache hit returns the payload stored under the request's own key.
C9_HitStep ==
    \A r \in HistIds :
        (HistBegins(r) /\ histReq'[r].status = 200)
        => \E row \in store :
              /\ row.date = CompositeKey(histReq'[r].date, histReq'[r].currency)
              /\ histReq'[r].body = JSONstringify(JSONparse(row.price_data))

\* C9: composite-key sensitivity: requests for one date with different
\* effective currency lists use distinct keys and distinct store entries,
\* no write replaces the entry of another key, and no hit returns it.
C9_CompositeKey == [](C9_Keys /\ C9_EntriesKept) /\ [][C9_WriteStep /\ C9_HitStep]_vars

\* C9 witness: two requests for one date with different currency lists have
\* each written an entry, and the store holds both.
C9_Witness ==
    \E i, j \in HistIds :
        /\ i # j /\ histReq[i].wrote /\ histReq[j].wrote
        /\ histReq[i].date = histReq[j].date
        /\ histReq[i].currency # histReq[j].currency
        /\ HoldsWriteOf(i) /\ HoldsWriteOf(j)
        /\ Cardinality(store) = 2

\* the upstream body has no market_data.current_price section
NoPriceSection(data) ==
    ~(/\ HasKey(data, K("market_data"))
      /\ HasKey(Get(data, K("market_data")), K("current_price")))

\* none of the currencies is a key of the current_price section
NonePresent(data, currencies) ==
    \A i \in DOMAIN currencies :
        ~HasKey(Get(Get(data, K("market_data")), K("current_price")), currencies[i])

\* C10: on a miss whose upstream call answers a body without a
\* market_data.current_price section, or with none of the effective
\* currencies in it, the request fails with 400 and the no-data error, and
\* the store is not written.
C10_NoDataStep ==
    \A r \in HistIds :
        (/\ HistSettles(r) /\ ~histReq'[r].threw
         /\ \/ NoPriceSection(histReq'[r].upstream)
            \/ NonePresent(histReq'[r].upstream,
                           EffectiveCurrencies(histReq[r].currency)))
        => /\ histReq'[r].status = 400
           /\ histReq'[r].body =
                 IF NoPriceSection(histReq'[r].upstream)
                 THEN NoPriceDataBody ELSE NoCurrenciesBody
           /\ ~histReq'[r].wrote
           /\ store' = store

\* C10: no-data outcomes: every step that settles such a miss satisfies
\* C10_NoDataStep.
C10_NoData == [][C10_NoDataStep]_vars

\* C10 witness: a miss answered with a price section that holds none of the
\* effective currencies, and one answered without a price section.
C10_Witness ==
    \E i, j \in HistIds :
        /\ HistDone(i) /\ histReq[i].calls = 1 /\ ~histReq[i].threw
        /\ ~NoPriceSection(histReq[i].upstream)
        /\ NonePresent(histReq[i].upstream, EffectiveCurrencies(histReq[i].currency))
        /\ histReq[i].status = 400 /\ histReq[i].body = NoCurrenciesBody
        /\ HistDone(j) /\ histReq[j].calls = 1 /\ ~histReq[j].threw
        /\ NoPriceSection(histReq[j].upstream)
        /\ histReq[j].status = 400 /\ histReq[j].body = NoPriceDataBody
        /\ store = {}

\* ============================= further claims on GET /btc-data
\* a live payload that holds, for each of the five currencies, a price, a
\* 24h change and a market cap
CompleteBtcData(btcData) ==
    /\ btcData.t = "object"
    /\ \A c \in {usd, aud, gbp, eur, cad} :
          LET entry == Get(btcData, toUpperCase(c))
          IN /\ entry.t = "object"
             /\ \A f \in {"price", "percentChange24h", "marketCap"} :
                   Get(entry, K(f)).t = "number"

\* C11: a refresh whose upstream payload misses an expected field of one of
\* the five currencies fails: a payload with a missing price, 24h change or
\* market cap is never the body of a 200 response and never the cached
\* payload.
C11_DataShapeChecked ==
    /\ cachedBtcData # Null => CompleteBtcData(cachedBtcData)
    /\ \A r \in LiveIds :
          (LiveDone(r) /\ liveReq[r].status = 200)
          => CompleteBtcData(JSONparse(liveReq[r].body))

\* the cached payload and lastFetchTime are together the result and the
\* start time of one request that completed its upstream call
C16_PairOfOneFetch ==
    cachedBtcData # Null
    => \E r \in LiveIds :
          /\ LiveDone(r) /\ liveReq[r].calls = 1 /\ liveReq[r].status = 200
          /\ liveReq[r].body = JSONstringify(cachedBtcData)
          /\ liveReq[r].start = lastFetchTime

\* C16: under every interleaving of GET /btc-data requests cachedBtcData is
\* absent (and lastFetchTime 0) or the complete five-currency result of one
\* completed upstream fetch, with lastFetchTime the start time of the request
\* that made that fetch.
C16_LiveCacheUnderConcurrency ==
    /\ cachedBtcData = Null => lastFetchTime = 0
    /\ C16_PairOfOneFetch
    /\ cachedBtcData # Null => CompleteBtcData(cachedBtcData)

\* C20 as stated: lastFetchTime never decreases.
C20_Original == [][lastFetchTime' >= lastFetchTime]_vars

\* a request that started after r has refreshed the cache and its refresh is
\* what the cache holds
OvertakenBy(r, j) ==
    /\ LiveDone(j) /\ liveReq[j].calls = 1 /\ liveReq[j].status = 200
    /\ liveReq[j].start > liveReq[r].start
    /\ lastFetchTime = liveReq[j].start

\* C20 amended: the last writer wins. A refresh that succeeds sets
\* lastFetchTime to the start time of its own request and the payload to its
\* own result, so lastFetchTime does not decrease unless a request that started
\* later has refreshed the cache before; then it decreases to the start time
\* of the earlier request. No other step changes lastFetchTime.
C20_RefreshStep ==
    /\ \A r \in LiveIds :
          (LiveSettles(r) /\ liveReq'[r].status = 200)
          => /\ lastFetchTime' = liveReq[r].start
             /\ JSONstringify(cachedBtcData') = liveReq'[r].body
             /\ lastFetchTime' < lastFetchTime
                   <=> \E j \in LiveIds : OvertakenBy(r, j)
    /\ lastFetchTime' # lastFetchTime
          => \E r \in LiveIds : LiveSettles(r) /\ liveReq'[r].status = 200

\* C20 amended: lastFetchTime under interleaved requests: every step
\* satisfies C20_RefreshStep.
C20_LastWriterWins == [][C20_RefreshStep]_vars

\* C20 witness: two refreshes, the request that started first completing
\* last: the cache holds its payload and its start time, older than the
\* start time the other had written.
C20_Witness ==
    \E i, j \in LiveIds :
        /\ LiveDone(i) /\ liveReq[i].calls = 1 /\ liveReq[i].status = 200
        /\ LiveDone(j) /\ liveReq[j].calls = 1 /\ liveReq[j].status = 200
        /\ liveReq[i].start < liveReq[j].start
        /\ liveReq[i].body # liveReq[j].body
        /\ lastFetchTime = liveReq[i].start
        /\ JSONstringify(cachedBtcData) = liveReq[i].body

\* ==================== further claims on GET /btc-price-history
\* the values a currency query supplies
SuppliedValues(query) ==
    CASE query.t = "string" -> <<query.v>>
      [] query.t = "array" -> [i \in DOMAIN query.items |-> query.items[i].v]
      [] OTHER -> <<>>

\* the effective list the parameter stands for: the one recognized code it
\* names, in lower case, or the full list
ExpectedCurrencies(query) ==
    LET values == SuppliedValues(query)
    IN IF Len(values) = 1 /\ toLowerCase(values[1]) \in {usd, aud, cad, eur, gbp}
       THEN <<toLowerCase(values[1])>>
       ELSE <<usd, aud, cad, eur, gbp>>

\* currency parameters around the five codes: each code in lower, upper and
\* mixed case, near misses, and arrays of one and of two values
QuerySamples ==
    ParamQueries
        \cup {Str(c) : c \in {usd, aud, cad, eur, gbp}}
        \cup {Str(toUpperCase(c)) : c \in {usd, aud, cad, eur, gbp}}
        \cup {Str([c EXCEPT ![2] = CharToUpper(c[2])]) : c \in {usd, aud, cad, eur, gbp}}
        \cup {Str(<<"u", "s">>), Str(<<"u", "s", "d", " ">>), Str(<<",">>)}
        \cup {Arr(<<Str(c), Str(d)>>) : c, d \in {usd, <<"E", "U", "R">>, <<>>}}
        \cup {Arr(<<Str(c)>>) : c \in {usd, <<"C", "a", "D">>, <<"x", "y", "z">>, <<>>}}

\* lines 279-294 compute the list the parameter stands for
CurrencyListOnSamples ==
    \A query \in QuerySamples :
        CurrenciesToReturn(CurrencyParamOf(query)) = ExpectedCurrencies(query)

\* C12: for every value of the currency parameter the effective list is the
\* singleton of the one recognized code it names, whatever its case, and
\* otherwise (absent, unrecognized, several values) the full list
\* usd,aud,cad,eur,gbp; the request goes on to the store lookup under the
\* key of that list, so no value of the parameter makes it fail.
C12_EffectiveCurrencies ==
    /\ CurrencyListOnSamples
    /\ \A r \in HistIds :
          (HistStarted(r) /\ IsDdMmYyyy(histReq[r].date))
          => /\ histReq[r].reads = 1
             /\ histReq[r].key =
                   histReq[r].date \o <<"-">>
                       \o join(ExpectedCurrencies(histReq[r].currency), <<",">>)
             /\ histReq[r].calls = 0 => histReq[r].status = 200
             /\ histReq[r].pc = "fetch" => histReq[r].calls = 1

\* C12 witness: a request naming one code in upper case and one naming two
\* codes, the first under the key of the singleton, the second under the key
\* of the full list.
C12_Witness ==
    \E i, j \in HistIds :
        /\ HistStarted(i) /\ histReq[i].currency = Arr(<<Str(<<"G", "B", "P">>)>>)
        /\ histReq[i].key = DateOk \o <<"-">> \o gbp
        /\ HistStarted(j) /\ histReq[j].currency = Arr(<<Str(usd), Str(eur)>>)
        /\ histReq[j].key = DateOk \o <<"-">> \o join(supportedCurrencies, <<",">>)

\* the time of the last sweep, once one has run: the timer is re-armed
\* PruneIntervalMs after it
SweepHasRun == nextPruneAt > PruneIntervalMs

LastSweepAt == nextPruneAt - PruneIntervalMs

\* every entry was written before the last sweep: no write since
NoWriteSinceSweep == \A row \in store : row.timestamp < LastSweepAt

\* C13 as stated: a sweep that follows a sweep with no store write in
\* between deletes nothing and leaves the store as it was.
C13_SecondRunStep ==
    (SweepRuns /\ SweepHasRun /\ NoWriteSinceSweep)
    => /\ store' = store
       /\ pruned' = 0

\* C13 as stated: pruning is idempotent: every sweep that follows a sweep
\* with no write in between satisfies C13_SecondRunStep.
C13_Original == [][C13_SecondRunStep]_vars

\* C13 amended, at one clock value: running pruneOldCacheEntries on the store
\* and again on what it leaves, with no write and no time in between, deletes
\* nothing the second time.
C13_SameClock ==
    LET first == pruneOldCacheEntries(now, store)
        second == pruneOldCacheEntries(now, first.table)
    IN /\ second.table = first.table
       /\ second.changes = 0

\* C13 amended, for two sweeps of the timer with no write in between: the
\* second deletes exactly the entries whose age has passed 24 hours since the
\* first, and nothing when there is none.
C13_NextSweepStep ==
    (SweepRuns /\ SweepHasRun /\ NoWriteSinceSweep)
    => LET aged == {row \in store : now - row.timestamp > maxAgeMs}
       IN /\ store' = store \ aged
          /\ pruned' = Cardinality(aged)
          /\ \A row \in aged : LastSweepAt - row.timestamp <= maxAgeMs

\* C13 amended: pruning is idempotent at one clock value, and between two
\* sweeps it deletes only what has aged in between.
C13_PruneIdempotent == []C13_SameClock /\ [][C13_NextSweepStep]_vars

\* C13 witness: a second sweep after one with no write in between has
\* deleted the two entries that aged past 24 hours since the first sweep.
C13_Witness ==
    /\ SweepHasRun
    /\ LastSweepAt = now
    /\ pruned = 2
    /\ store = {}
    /\ \A r \in HistIds : histReq[r].wrote /\ now - histReq[r].wroteAt > maxAgeMs

\* C15: the store holds at most one entry per key.
C15_OnePerKey ==
    \A row, other \in store : row.date = other.date => row = other

\* C15: the payload and the timestamp of every entry are those of one write
\* of one completed request, under that request's key.
C15_RowsAreWrites ==
    \A row \in store :
        \E i \in HistIds :
            /\ HistDone(i) /\ histReq[i].wrote
            /\ histReq[i].key = row.date
            /\ histReq[i].body = row.price_data
            /\ histReq[i].wroteAt = row.timestamp

\* C15: the last write wins: after a request's write the entry under its
\* key is that write whole, whatever entry was there before.
C15_LastWriteStep ==
    \A r \in HistIds :
        (HistSettles(r) /\ histReq'[r].wrote)
        => {row \in store' : row.date = histReq[r].key}
              = {[date |-> histReq[r].key, price_data |-> histReq'[r].body,
                  timestamp |-> now]}

\* C15: under every interleaving of historical requests and sweeps the
\* store holds at most one entry per composite key, and the entry is always
\* the payload and timestamp of a single completed write, the last one.
C15_StoreUnderConcurrency ==
    [](C15_OnePerKey /\ C15_RowsAreWrites) /\ [][C15_LastWriteStep]_vars

\* C15 witness: two concurrent misses for one key (the second began before
\* the first had written, no sweep has run) have both fetched and both
\* written different payloads at different times; the one entry under the
\* key is the later write.
C15_Witness ==
    \E i, j \in HistIds :
        /\ i # j /\ HistDone(i) /\ HistDone(j)
        /\ histReq[i].key = histReq[j].key
        /\ histReq[i].found = "none" /\ histReq[j].found = "none"
        /\ histReq[i].wrote /\ histReq[j].wrote
        /\ histReq[i].body # histReq[j].body
        /\ histReq[i].wroteAt < histReq[j].wroteAt
        /\ ~SweepHasRun
        /\ store = {[date |-> histReq[j].key, price_data |-> histReq[j].body,
                     timestamp |-> histReq[j].wroteAt]}

\* the current_price section of an upstream body
CurrentPrice(data) == Get(Get(data, K("market_data")), K("current_price"))

\* C17: a miss that ends in 200 returns and stores a prices map whose keys are
\* exactly the effective currencies that are keys of the upstream
\* current_price section, each with the upstream value, a price of 0
\* included.
C17_FilterStep ==
    \A r \in HistIds :
        (HistSettles(r) /\ histReq'[r].status = 200)
        => LET upstream == CurrentPrice(histReq'[r].upstream)
               effective == EffectiveCurrencies(histReq[r].currency)
               present == {effective[i] : i \in {i \in DOMAIN effective :
                                                    HasKey(upstream, effective[i])}}
               returned == Get(JSONparse(histReq'[r].body), K("prices"))
           IN /\ {Keys(returned)[i] : i \in DOMAIN Keys(returned)} = present
              /\ \A c \in present : Get(returned, c) = Get(upstream, c)
              /\ \E row \in store' :
                    /\ row.date = histReq[r].key
                    /\ row.price_data = histReq'[r].body

\* C17: filter exactness: every step that ends a miss in 200 satisfies
\* C17_FilterStep.
C17_FilterExact == [][C17_FilterStep]_vars

\* C18: a historical request changes the store only in the step that ends it
\* with 200 after its upstream call, and then only the entry under its own
\* key, which becomes its result written at the time of the write; its
\* first step (validation, lookup, hit) and an end in 400 or 500 leave the
\* store as it was; no step of it changes cachedBtcData or lastFetchTime.
C18_RequestStep ==
    \A r \in HistIds :
        /\ HistBegins(r)
           => /\ store' = store
              /\ UNCHANGED <<cachedBtcData, lastFetchTime>>
        /\ HistSettles(r)
           => /\ UNCHANGED <<cachedBtcData, lastFetchTime>>
              /\ IF histReq'[r].status = 200
                 THEN /\ {row \in store' : row.date # histReq[r].key}
                            = {row \in store : row.date # histReq[r].key}
                      /\ {row \in store' : row.date = histReq[r].key}
                            = {[date |-> histReq[r].key,
                                price_data |-> histReq'[r].body,
                                timestamp |-> now]}
                 ELSE store' = store

\* C18: the store changes in no other step of the handlers
C18_OnlyWrites ==
    store' # store
    => \E r \in HistIds : HistSettles(r) /\ histReq'[r].status = 200

\* C18: store frame condition: every step satisfies C18_RequestStep and
\* C18_OnlyWrites.
C18_StoreFrame == [][C18_RequestStep /\ C18_OnlyWrites]_vars

\* C18 witness: with a payload in the live cache, one request has written
\* its entry, a day later another has written an entry under another key,
\* and the store holds both as written.
C18_Witness ==
    \E i, j \in HistIds :
        /\ cachedBtcData # Null
        /\ liveReq[1].status = 200 /\ liveReq[1].body = JSONstringify(cachedBtcData)
        /\ HistDone(i) /\ HistDone(j)
        /\ histReq[i].wrote /\ histReq[j].wrote
        /\ histReq[i].key # histReq[j].key
        /\ histReq[j].wroteAt - histReq[i].wroteAt = oneDayMs
        /\ HoldsWriteOf(i) /\ HoldsWriteOf(j)
        /\ Cardinality(store) = 2

\* a lookup at the present clock value would serve the entry
Served(row) == getPriceFromCache(row.date, now, store) # Null

\* a sweep at the present clock value would delete the entry
Swept(row) == row \notin pruneOldCacheEntries(now, store).table

\* C19: at every clock value and for every entry of the store: the entry is
\* served exactly when it is less than 24 hours old and swept exactly when
\* it is more than 24 hours old, so never both, and neither when it is
\* exactly 24 hours old.
C19_Thresholds ==
    \A row \in store :
        /\ Served(row) <=> now - row.timestamp < oneDayMs
        /\ Swept(row) <=> now - row.timestamp > oneDayMs
        /\ ~(Served(row) /\ Swept(row))
        /\ now - row.timestamp = oneDayMs => ~Served(row) /\ ~Swept(row)

\* C19: a sweep deletes no entry that a lookup at the same clock value would
\* have served.
C19_SweepStep ==
    SweepRuns => \A row \in store \ store' : ~Served(row)

\* C19: the read and prune thresholds are consistent.
C19_ReadPruneConsistent == []C19_Thresholds /\ [][C19_SweepStep]_vars

\* C19 witness: an entry exactly 24 hours old is in the store after a sweep
\* at this clock value, and the request that looked it up at this clock
\* value was not served from it.
C19_Witness ==
    \E row \in store :
        /\ now - row.timestamp = oneDayMs
        /\ SweepHasRun /\ LastSweepAt = now
        /\ \E r \in HistIds :
              /\ histReq[r].key = row.date
              /\ histReq[r].found = "stale"
              /\ histReq[r].pc = "fetch"

\* ============================================ claims on both handlers
\* C14: every request that has made its upstream call is answered in the
\* end, whether or not the upstream answers.
C14_EventuallyResponds ==
    /\ (liveReq[1].pc = "fetch") ~> (liveReq[1].pc = "done")
    /\ (histReq[1].pc = "fetch") ~> (histReq[1].pc = "done")
====
